---- MODULE Spec2Model ----
(***************************************************************************)
(* A model of MyMinecraftLauncher.py: the launcher's pure functions        *)
(* (format_name, allowed_by_rules, get_library_urls, format_template), its *)
(* download functions acting on a file system, and the UI handlers that    *)
(* create, delete and launch profiles.                                     *)
(*                                                                         *)
(* Strings are sequences of one-character strings, so that strip, replace, *)
(* slicing and scanning are computed as the code computes them.  A path is *)
(* a sequence of components, each component a string in that sense.        *)
(***************************************************************************)
EXTENDS Integers, Sequences, FiniteSets, TLC

VARIABLES
    fs,         \* the file system: path -> [kind, data, full]
    profiles,   \* the global list `profiles`
    net,        \* urlopen calls made so far, per URL
    failures,   \* per version, the acquisitions of it that a failing fetch aborted
    last,       \* the UI handler that ran last, and how it ended
    call,       \* a call of a pure function: its argument and its result
    pc,         \* where the UI thread is: "mainloop", "subprocess.call", "destroyed"
    child       \* the child process started by launch_profile

vars == <<fs, profiles, net, failures, last, call, pc, child>>

----------------------------------------------------------------------------
(* Bounds of the model.                                                    *)

MaxRules == 3        \* longest rule list given to allowed_by_rules
MaxLibs == 3         \* longest library list given to get_library_urls
MaxTemplateLen == 4  \* longest string given to format_template
MaxFailures == 1     \* acquisitions that a failing fetch may abort in one behaviour
MaxProfiles == 2     \* profiles registered at the same time
MaxFetches == 8      \* the urlopen calls of one handler that may be the failing one
MaxNameLen == 3      \* longest string given to format_name
MaxMissing == 2      \* files of an installation that are gone when the launcher starts

----------------------------------------------------------------------------
(* Sequences.                                                              *)

Range(s) == {s[i] : i \in DOMAIN s}

SeqsUpTo(S, n) == UNION {[1..k -> S] : k \in 0..n}

Last(s) == s[Len(s)]

Front(s) == SubSeq(s, 1, Len(s) - 1)

IsPrefix(p, q) == Len(p) <= Len(q) /\ SubSeq(q, 1, Len(p)) = p

Min(S) == CHOOSE x \in S : \A y \in S : x <= y
Max(S) == CHOOSE x \in S : \A y \in S : x >= y

\* One opaque string, as a sequence of "characters".
Str(s) == <<s>>

----------------------------------------------------------------------------
(* format_name                                                             *)

Whitespace == {" "}

RECURSIVE lstrip(_)
lstrip(s) ==
    IF s # <<>> /\ Head(s) \in Whitespace THEN lstrip(Tail(s)) ELSE s

RECURSIVE rstrip(_)
rstrip(s) ==
    IF s # <<>> /\ Last(s) \in Whitespace THEN rstrip(Front(s)) ELSE s

strip(s) == rstrip(lstrip(s))

replace(s, old, new) == [i \in DOMAIN s |-> IF s[i] = old THEN new ELSE s[i]]

\* A mutation of format_name without its last line: ".." is returned as
\* it is.
format_name_dotdot_kept(name) ==
    replace(replace(replace(replace(strip(name),
        "/", "_"), "\\", "_"), "\"", "_"), "'", "_")

format_name(name) ==
    LET n == replace(replace(replace(replace(strip(name),
                 "/", "_"), "\\", "_"), "\"", "_"), "'", "_")
    IN  IF n = <<".", ".">> THEN <<"_", "_">> ELSE n

----------------------------------------------------------------------------
(* allowed_by_rules                                                        *)

\* A rule: its action, and the name of its "os" object ("none": no "os").
Rules == [action : {"allow", "disallow"}, os : {"none", "windows", "osx"}]

has_os(rule) == rule.os # "none"

\* A mutation of rule_step in which a rule whose OS does not match is
\* handled like a rule without an OS.
rule_step_elif_dropped(rule, allowed) ==
    IF rule.action = "allow"
    THEN IF has_os(rule) /\ rule.os = "windows"
         THEN [returned |-> TRUE, value |-> TRUE]
         ELSE [returned |-> FALSE, value |-> TRUE]
    ELSE IF rule.action = "disallow"
    THEN IF has_os(rule) /\ rule.os = "windows"
         THEN [returned |-> TRUE, value |-> FALSE]
         ELSE [returned |-> FALSE, value |-> FALSE]
    ELSE [returned |-> FALSE, value |-> allowed]

\* One iteration of the loop: whether it returns, and the value returned
\* or left in `allowed`.
rule_step(rule, allowed) ==
    IF rule.action = "allow"
    THEN IF has_os(rule) /\ rule.os = "windows"
         THEN [returned |-> TRUE, value |-> TRUE]
         ELSE IF ~has_os(rule)
         THEN [returned |-> FALSE, value |-> TRUE]
         ELSE [returned |-> FALSE, value |-> allowed]
    ELSE IF rule.action = "disallow"
    THEN IF has_os(rule) /\ rule.os = "windows"
         THEN [returned |-> TRUE, value |-> FALSE]
         ELSE IF ~has_os(rule)
         THEN [returned |-> FALSE, value |-> FALSE]
         ELSE [returned |-> FALSE, value |-> allowed]
    ELSE [returned |-> FALSE, value |-> allowed]

RECURSIVE rules_loop(_, _, _)
rules_loop(rules, i, allowed) ==
    IF i > Len(rules) THEN allowed
    ELSE LET r == rule_step(rules[i], allowed)
         IN  IF r.returned THEN r.value ELSE rules_loop(rules, i + 1, r.value)

allowed_by_rules(rules) == rules_loop(rules, 1, FALSE)

----------------------------------------------------------------------------
(* get_library_urls and the classpath of launch_profile                    *)

\* A URL is the sequence of its "/"-separated segments; url.split("/")[-1]
\* is its last segment.
url_filename(url) == Last(url)

LIBRARIES_URL == Str("libraries.minecraft.net")

LibUrl(file) == <<LIBRARIES_URL, Str(file)>>

\* An optional value: <<>> when the key is absent, <<v>> when it is v.
None == <<>>
Some(v) == <<v>>

\* A library object: has_rules is `"rules" in library`, native is
\* downloads.classifiers["natives-windows"].url, artifact is
\* downloads.artifact.url, extract is `"extract" in library`.
Library(has_rules, rules, native, artifact, extract) ==
    [has_rules |-> has_rules, rules |-> rules, native |-> native,
     artifact |-> artifact, extract |-> extract]

\* A mutation of library_urls that appends the main artifact first.
library_urls_artifact_first(library) ==
    IF library.has_rules /\ ~allowed_by_rules(library.rules) THEN <<>>
    ELSE library.artifact \o library.native

\* The body of the loop of get_library_urls: what one library appends.
library_urls(library) ==
    IF library.has_rules /\ ~allowed_by_rules(library.rules) THEN <<>>
    ELSE library.native \o library.artifact

RECURSIVE get_library_urls(_)
get_library_urls(libraries) ==
    IF libraries = <<>> THEN <<>>
    ELSE library_urls(Head(libraries)) \o get_library_urls(Tail(libraries))

APPLICATION_DIRECTORY == <<Str("LOCALAPPDATA"), Str("MyMinecraftLauncher")>>
TEMP_DIRECTORY == <<Str("TEMP"), Str("MyMinecraftLauncher")>>
ASSETS_DIRECTORY == Append(APPLICATION_DIRECTORY, Str("assets"))
ASSET_OBJECTS_DIRECTORY == Append(ASSETS_DIRECTORY, Str("objects"))
ASSET_INDEXES_DIRECTORY == Append(ASSETS_DIRECTORY, Str("indexes"))
PROFILES_DIRECTORY == Append(APPLICATION_DIRECTORY, Str("profiles"))
LIBRARIES_DIRECTORY == Append(APPLICATION_DIRECTORY, Str("libraries"))
EXTRACTED_LIBRARIES_DIRECTORY == Append(LIBRARIES_DIRECTORY, Str("native"))
JAVA_DIRECTORY == Append(APPLICATION_DIRECTORY, Str("java"))
VERSIONS_DIRECTORY == Append(APPLICATION_DIRECTORY, Str("versions"))

\* pathlib's `directory / name`: an empty or "." segment adds nothing.
PathDiv(directory, name) ==
    IF name \in {<<>>, <<".">>} THEN directory ELSE Append(directory, name)

version_jar_path(id) == PathDiv(VERSIONS_DIRECTORY, id \o <<".jar">>)
version_json_path(id) == PathDiv(VERSIONS_DIRECTORY, id \o <<".json">>)
library_path(url) == PathDiv(LIBRARIES_DIRECTORY, url_filename(url))

\* The classpath list built by launch_profile.
classpath(libraries, version_id) ==
    Append([i \in DOMAIN get_library_urls(libraries) |->
               library_path(get_library_urls(libraries)[i])],
           version_jar_path(version_id))

----------------------------------------------------------------------------
(* format_template                                                         *)

\* The position of the first "}" at or after i, 0 when there is none: the
\* inner `for char in iterator` loop.
RECURSIVE find_close(_, _)
find_close(string, i) ==
    IF i > Len(string) THEN 0
    ELSE IF string[i] = "}" THEN i
    ELSE find_close(string, i + 1)

\* format_template from position i on, `result` being the text built so
\* far.  err is "none" or the exception raised.
RECURSIVE template_loop(_, _, _, _)
template_loop(string, kwargs, i, result) ==
    IF i > Len(string) THEN [err |-> "none", out |-> result]
    ELSE IF string[i] # "$"
    THEN template_loop(string, kwargs, i + 1, Append(result, string[i]))
    ELSE IF i + 1 > Len(string)
    THEN [err |-> "StopIteration", out |-> <<>>]
    ELSE IF string[i + 1] # "{"
    THEN template_loop(string, kwargs, i + 2,
                       result \o <<"$", string[i + 1]>>)
    ELSE LET j == find_close(string, i + 2)
             key == SubSeq(string, i + 2, j - 1)
         IN  IF j = 0
             THEN [err |-> "Format should be terminated.", out |-> <<>>]
             ELSE IF key \notin DOMAIN kwargs
             THEN [err |-> "KeyError", out |-> <<>>]
             ELSE template_loop(string, kwargs, j + 1, result \o kwargs[key])

format_template(string, kwargs) == template_loop(string, kwargs, 1, <<>>)

----------------------------------------------------------------------------
(* The file system, exceptions and the network.                            *)
(*                                                                         *)
(* The functions of the program are operators on a "world" w: the file     *)
(* system, the list `profiles`, the urlopen calls made, and the exception  *)
(* that is propagating (err, "none" when there is none).  A statement      *)
(* reached while an exception propagates does nothing.                     *)

Dir == [kind |-> "dir", data |-> <<>>, full |-> TRUE]

\* A regular file: what was written into it, and whether all of it was.
File(data, full) == [kind |-> "file", data |-> data, full |-> full]

Parent(p) == Front(p)

exists(w, p) == p \in DOMAIN w.fs

is_dir(w, p) == exists(w, p) /\ w.fs[p].kind = "dir"

raise(w, e) == IF w.err # "none" THEN w ELSE [w EXCEPT !.err = e]

ok(w) == w.err = "none"

\* Path.mkdir(parents=..., exist_ok=...)
RECURSIVE mkdir(_, _, _, _)
mkdir(w, p, parents, exist_ok) ==
    IF ~ok(w) THEN w
    ELSE IF exists(w, p)
    THEN IF exist_ok /\ is_dir(w, p) THEN w ELSE raise(w, "FileExistsError")
    ELSE IF is_dir(w, Parent(p))
    THEN [w EXCEPT !.fs = (p :> Dir) @@ @]
    ELSE IF exists(w, Parent(p))
    THEN raise(w, "NotADirectoryError")
    ELSE IF ~parents
    THEN raise(w, "FileNotFoundError")
    ELSE mkdir(mkdir(w, Parent(p), TRUE, TRUE), p, FALSE, exist_ok)

\* os.makedirs(p, exist_ok=True)
makedirs(w, p) == mkdir(w, p, TRUE, TRUE)

\* open(p, "w") or open(p, "wb"): the file exists and is empty from here on.
open_w(w, p) ==
    IF ~ok(w) THEN w
    ELSE IF ~is_dir(w, Parent(p)) THEN raise(w, "FileNotFoundError")
    ELSE IF is_dir(w, p) THEN raise(w, "PermissionError")
    ELSE [w EXCEPT !.fs = (p :> File(<<>>, FALSE)) @@ @]

\* file.write(data) on the file opened at p, and its close.
write(w, p, data) ==
    IF ~ok(w) THEN w ELSE [w EXCEPT !.fs[p] = File(data, TRUE)]

\* Path.unlink()
unlink(w, p) ==
    IF ~ok(w) THEN w
    ELSE IF ~exists(w, p) THEN raise(w, "FileNotFoundError")
    ELSE [w EXCEPT !.fs = [q \in DOMAIN @ \ {p} |-> @[q]]]

\* shutil.rmtree(p)
rmtree(w, p) ==
    IF ~ok(w) THEN w
    ELSE IF ~exists(w, p) THEN raise(w, "FileNotFoundError")
    ELSE IF ~is_dir(w, p) THEN raise(w, "NotADirectoryError")
    ELSE [w EXCEPT !.fs = [q \in {q \in DOMAIN @ : ~IsPrefix(p, q)} |-> @[q]]]

\* os.link(src, dst)
link(w, src, dst) ==
    IF ~ok(w) THEN w
    ELSE IF ~exists(w, src) THEN raise(w, "FileNotFoundError")
    ELSE IF exists(w, dst) THEN raise(w, "FileExistsError")
    ELSE IF ~is_dir(w, Parent(dst)) THEN raise(w, "FileNotFoundError")
    ELSE [w EXCEPT !.fs = (dst :> w.fs[src]) @@ @]

\* The urlopen calls counted for url.
fetches(n, url) == IF url \in DOMAIN n THEN n[url] ELSE 0

\* urlopen(url).  The handler's fault says which of its urlopen calls fails
\* (at, 0 for none) and how: "connect", urlopen itself raises; "read", the
\* response is opened and reading it raises.
urlopen(w, url) ==
    IF ~ok(w) THEN w
    ELSE LET w1 == [w EXCEPT !.calls = @ + 1,
                             !.trace = Append(@, url),
                             !.net = (url :> fetches(w.net, url) + 1) @@ @]
         IN  IF w.fault.at = w1.calls /\ w.fault.mode = "connect"
             THEN raise(w1, "URLError")
             ELSE w1

\* Whether res.read() of the response opened last raises.
read_fails(w) == w.fault.at = w.calls /\ w.fault.mode = "read"

\* res.read() or json.load(res)
read(w) == IF ok(w) /\ read_fails(w) THEN raise(w, "TimeoutError") ELSE w

\* with urlopen(url) as res:
\*     with path.open("wb") as file:
\*         file.write(res.read())
download(w, url, path) ==
    write(read(open_w(urlopen(w, url), path)), path, url)

\* ZipFile(zip_path).extractall(directory): members are the paths of the
\* archive's files, relative to the directory.
RECURSIVE extract_members(_, _, _, _)
extract_members(w, data, directory, members) ==
    IF ~ok(w) \/ members = <<>> THEN w
    ELSE LET target == directory \o Head(members)
             w1 == makedirs(w, Parent(target))
             w2 == write(open_w(w1, target), target, data)
         IN  extract_members(w2, data, directory, Tail(members))

----------------------------------------------------------------------------
(* What the remote endpoints serve: a manifest of two versions, one with   *)
(* the legacy asset index.                                                 *)

V1 == Str("v1")
V2 == Str("v2")

H1 == <<"a", "b", "1">>
H2 == <<"a", "b", "2">>

version_url(id) == <<Str("piston-meta.mojang.com"), id \o <<".json">>>>
client_url(id) == <<Str("piston-data.mojang.com"), id \o <<".jar">>>>
index_url(id) == <<Str("piston-meta.mojang.com"), Str("indexes"), id \o <<".json">>>>

manifest == [versions |-> <<[id |-> V1, url |-> version_url(V1)],
                            [id |-> V2, url |-> version_url(V2)]>>]

ManifestIds == {manifest.versions[i].id : i \in DOMAIN manifest.versions}

Allow(os) == [action |-> "allow", os |-> os]
Disallow(os) == [action |-> "disallow", os |-> os]

\* A: rejected by its rules.  B: a native artifact to extract and a main
\* artifact.  C: a main artifact only.  D: accepted by its rules.
LibA == Library(TRUE, <<Allow("osx")>>, None, Some(LibUrl("a.jar")), FALSE)
LibB == Library(FALSE, <<>>, Some(LibUrl("b-natives.jar")),
                Some(LibUrl("b.jar")), TRUE)
LibC == Library(FALSE, <<>>, None, Some(LibUrl("c.jar")), FALSE)
LibD == Library(TRUE, <<Allow("none"), Disallow("osx")>>, None,
                Some(LibUrl("d.jar")), FALSE)
LibE == Library(TRUE, <<>>, Some(LibUrl("e-natives.jar")), None, FALSE)

IndexIds == {Str("legacy"), Str("5")}

\* A "${key}" of a game argument.
Template(key) == <<"$", "{", key, "}">>

\* An element of arguments.game: a string, or an object that gates
\* arguments by rules.
JsonStr(string) == [type |-> "str", value |-> string]
JsonDict(rules) == [type |-> "dict", rules |-> rules]

\* The game arguments of a descriptor: the old form has the string
\* minecraftArguments, the new form the list arguments.game.
GameArguments(id) ==
    IF id = V1
    THEN [minecraftArguments |->
              <<"--username", " ">> \o Template("auth_player_name")
                  \o <<" ", "--gameDir", " ">> \o Template("game_directory")
                  \o <<" ", " ", "--assetsDir", " ">> \o Template("game_assets")]
    ELSE [arguments |->
              [game |-> <<JsonStr(<<"--username">>),
                          JsonStr(Template("auth_player_name")),
                          JsonDict(<<Allow("none")>>),
                          JsonStr(<<"--assetIndex">>),
                          JsonStr(Template("assets_index_name"))>>]]

\* The JSON document a URL serves, as json.load returns it.
VersionJson(id) ==
    [id |-> id,
     javaVersion |-> [majorVersion |-> IF id = V1 THEN 8 ELSE 17],
     assetIndex |-> [id |-> IF id = V1 THEN Str("legacy") ELSE Str("5"),
                     url |-> index_url(IF id = V1 THEN Str("legacy")
                                                  ELSE Str("5"))],
     downloads |-> [client |-> [url |-> client_url(id)]],
     libraries |-> IF id = V1 THEN <<LibA, LibB>> ELSE <<LibB, LibC>>,
     mainClass |-> Str("net.minecraft.client.main.Main")]
    @@ GameArguments(id)

\* asset_index["objects"].items(), in the document's order.
AssetIndexJson(id) ==
    [objects |->
        IF id = Str("legacy")
        THEN <<[key |-> <<Str("icons"), Str("icon.png")>>, hash |-> H1],
               [key |-> <<Str("pack.png")>>, hash |-> H1]>>
        ELSE <<[key |-> <<Str("pack.png")>>, hash |-> H1],
               [key |-> <<Str("music.ogg")>>, hash |-> H2]>>]

\* JSON text.  A number is its decimal digits, an object the list of its
\* members; the values that the launcher only passes on are kept as they
\* are.
Digits == <<"0", "1", "2", "3", "4", "5", "6", "7", "8", "9">>

RECURSIVE itoa(_)
itoa(n) ==
    IF n < 10 THEN <<Digits[n + 1]>>
    ELSE itoa(n \div 10) \o <<Digits[(n % 10) + 1]>>

RECURSIVE atoi(_)
atoi(digits) ==
    IF digits = <<>> THEN 0
    ELSE atoi(Front(digits)) * 10
             + (CHOOSE d \in 0..9 : Digits[d + 1] = Last(digits))

JsonNumber(n) == [type |-> "number", digits |-> itoa(n)]
JsonValue(v) == [type |-> "value", value |-> v]
JsonObject(members) == [type |-> "object", members |-> members]
Member(key, text) == [key |-> key, value |-> text]

\* The keys of a descriptor, in the order json.dump is taken to write them.
DescriptorKeys ==
    <<"arguments", "assetIndex", "downloads", "id", "javaVersion",
      "libraries", "mainClass", "minecraftArguments">>

\* json.dump(obj, file) for the two documents the launcher caches: what
\* is written for a descriptor, and for an asset index.
json_dump(obj) ==
    IF "objects" \in DOMAIN obj
    THEN JsonObject(<<Member("objects", JsonValue(obj.objects))>>)
    ELSE LET keys == SelectSeq(DescriptorKeys, LAMBDA k : k \in DOMAIN obj)
         IN  JsonObject(
                 [i \in DOMAIN keys |->
                     Member(keys[i],
                            IF keys[i] = "javaVersion"
                            THEN JsonObject(<<Member("majorVersion",
                                     JsonNumber(obj.javaVersion.majorVersion))>>)
                            ELSE JsonValue(obj[keys[i]]))])

\* json.load(file) and json.load(res): an object becomes a dict of its
\* members, the last of those with the same key; a number an int.
RECURSIVE json_load(_)
json_load(text) ==
    CASE text.type = "number" -> atoi(text.digits)
      [] text.type = "object" ->
             [key \in {text.members[i].key : i \in DOMAIN text.members} |->
                 json_load(text.members[
                     Max({i \in DOMAIN text.members :
                              text.members[i].key = key})].value)]
      [] OTHER -> text.value

Reverse(s) == [i \in DOMAIN s |-> s[Len(s) + 1 - i]]

\* The body of the response to urlopen(url) for a descriptor or an asset
\* index: the members come in the server's order.
Body(url) ==
    LET text == IF \E id \in ManifestIds : url = version_url(id)
                THEN json_dump(VersionJson(
                         CHOOSE id \in ManifestIds : url = version_url(id)))
                ELSE json_dump(AssetIndexJson(
                         CHOOSE id \in IndexIds : url = index_url(id)))
    IN  JsonObject(Reverse(text.members))

ASSETS_URL == <<Str("resources.download.minecraft.net")>>

JRE_DOWNLOAD_URLS ==
    (8 :> <<Str("github.com"), Str("temurin8-binaries"),
            Str("OpenJDK8U-jre_x64_windows_hotspot_8u392b08.zip")>>)
    @@ (17 :> <<Str("github.com"), Str("temurin17-binaries"),
                Str("OpenJDK17U-jre_x64_windows_hotspot_17.0.9_9.zip")>>)

JRE_DIRECTORIES ==
    (8 :> JAVA_DIRECTORY \o <<Str("jdk8u392-b08-jre"), Str("bin")>>)
    @@ (17 :> JAVA_DIRECTORY \o <<Str("jdk-17.0.9+9-jre"), Str("bin")>>)

JAVA_EXECUTABLE == Str("java.exe")

\* The files of a zip archive, relative to where it is extracted.
zip_members(url) ==
    IF \E v \in DOMAIN JRE_DOWNLOAD_URLS : url = JRE_DOWNLOAD_URLS[v]
    THEN LET v == CHOOSE v \in DOMAIN JRE_DOWNLOAD_URLS :
                      url = JRE_DOWNLOAD_URLS[v]
         IN  <<<<Last(Front(JRE_DIRECTORIES[v])), Str("bin"), JAVA_EXECUTABLE>>>>
    ELSE <<<<url_filename(url) \o <<".dll">>>>>>

\* with ZipFile(path, "r") as zipfile: zipfile.extractall(directory)
extractall(w, path, directory) ==
    IF ~ok(w) THEN w
    ELSE IF ~exists(w, path) THEN raise(w, "FileNotFoundError")
    ELSE IF w.fs[path].kind # "file" THEN raise(w, "PermissionError")
    ELSE IF ~w.fs[path].full THEN raise(w, "BadZipFile")
    ELSE extract_members(w, w.fs[path].data, directory,
                         zip_members(w.fs[path].data))

----------------------------------------------------------------------------
(* The download functions.                                                 *)

\* A mutation of get_version_json that does not look for the cached file.
get_version_json_uncached(w, id) ==
    LET path == version_json_path(id)
    IN  IF ~ok(w) THEN [w |-> w, ret |-> <<>>]
        ELSE IF id \notin ManifestIds
        THEN [w |-> raise(w, "StopIteration"), ret |-> <<>>]
        ELSE LET url == (CHOOSE v \in Range(manifest.versions) : v.id = id).url
                 w1 == read(urlopen(w, url))
             IN  [w |-> write(open_w(w1, path), path,
                              json_dump(json_load(Body(url)))),
                  ret |-> json_load(Body(url))]

\* get_version_json(id): the world after it, and the dict it returns.
get_version_json(w, id) ==
    LET path == version_json_path(id)
    IN  IF ~ok(w) THEN [w |-> w, ret |-> <<>>]
        ELSE IF exists(w, path)
        THEN [w |-> w, ret |-> json_load(w.fs[path].data)]
        ELSE IF id \notin ManifestIds
        THEN [w |-> raise(w, "StopIteration"), ret |-> <<>>]
        ELSE LET url == (CHOOSE v \in Range(manifest.versions) : v.id = id).url
                 w1 == read(urlopen(w, url))
             IN  [w |-> write(open_w(w1, path), path,
                              json_dump(json_load(Body(url)))),
                  ret |-> json_load(Body(url))]

\* A mutation of download_java that takes the newest runtime for a version
\* it does not know.
download_java_newest(w, version) ==
    LET known == IF version \in DOMAIN JRE_DIRECTORIES THEN version ELSE 17
        url == JRE_DOWNLOAD_URLS[known]
        zip_path == PathDiv(TEMP_DIRECTORY, url_filename(url) \o <<".zip">>)
    IN  IF ~ok(w) THEN w
        ELSE IF exists(w, JRE_DIRECTORIES[known]) THEN w
        ELSE unlink(extractall(download(w, url, zip_path), zip_path,
                               JAVA_DIRECTORY),
                    zip_path)

download_java(w, version) ==
    IF ~ok(w) THEN w
    ELSE IF version \notin DOMAIN JRE_DIRECTORIES THEN raise(w, "KeyError")
    ELSE IF exists(w, JRE_DIRECTORIES[version]) THEN w
    ELSE LET url == JRE_DOWNLOAD_URLS[version]
             zip_path == PathDiv(TEMP_DIRECTORY, url_filename(url) \o <<".zip">>)
             w1 == download(w, url, zip_path)
             w2 == extractall(w1, zip_path, JAVA_DIRECTORY)
         IN  unlink(w2, zip_path)

asset_path(hash) ==
    PathDiv(PathDiv(ASSET_OBJECTS_DIRECTORY, SubSeq(hash, 1, 2)), hash)

asset_url(hash) == ASSETS_URL \o <<SubSeq(hash, 1, 2), hash>>

\* A mutation of download_asset without the `if path.exists(): continue`.
download_asset_always(w, hash) ==
    LET w1 == makedirs(w, PathDiv(ASSET_OBJECTS_DIRECTORY, SubSeq(hash, 1, 2)))
    IN  download(w1, asset_url(hash), asset_path(hash))

\* The body of the loop of download_assets, for one object of the index.
download_asset(w, hash) ==
    LET short_hash == SubSeq(hash, 1, 2)
        path == asset_path(hash)
        fetch(w1) == IF ~ok(w1) THEN w1
                     ELSE IF exists(w1, path) THEN w1
                     ELSE download(w1, asset_url(hash), path)
    IN  fetch(makedirs(w, PathDiv(ASSET_OBJECTS_DIRECTORY, short_hash)))

RECURSIVE download_asset_objects(_, _)
download_asset_objects(w, objects) ==
    IF ~ok(w) \/ objects = <<>> THEN w
    ELSE download_asset_objects(download_asset(w, Head(objects).hash),
                                Tail(objects))

asset_index_path(id) == PathDiv(ASSET_INDEXES_DIRECTORY, id \o <<".json">>)

download_assets(w, version_json) ==
    LET index_path == asset_index_path(version_json.assetIndex.id)
        url == version_json.assetIndex.url
    IN  IF ~ok(w) THEN w
        ELSE IF exists(w, index_path)
        THEN download_asset_objects(w, json_load(w.fs[index_path].data).objects)
        ELSE LET w1 == read(urlopen(w, url))
                 w2 == write(open_w(w1, index_path), index_path,
                             json_dump(json_load(Body(url))))
             IN  download_asset_objects(w2, json_load(Body(url)).objects)

\* The first loop of download_libraries.
RECURSIVE download_library_files(_, _)
download_library_files(w, urls) ==
    IF ~ok(w) \/ urls = <<>> THEN w
    ELSE LET path == library_path(Head(urls))
         IN  IF exists(w, path)
             THEN download_library_files(w, Tail(urls))
             ELSE download_library_files(download(w, Head(urls), path),
                                         Tail(urls))

RECURSIVE extract_urls(_, _, _)
extract_urls(w, urls, directory) ==
    IF ~ok(w) \/ urls = <<>> THEN w
    ELSE extract_urls(extractall(w, library_path(Head(urls)), directory),
                      Tail(urls), directory)

\* The second loop of download_libraries.
RECURSIVE extract_libraries(_, _, _)
extract_libraries(w, libraries, directory) ==
    IF ~ok(w) \/ libraries = <<>> THEN w
    ELSE IF ~Head(libraries).extract
    THEN extract_libraries(w, Tail(libraries), directory)
    ELSE extract_libraries(
             extract_urls(w, get_library_urls(<<Head(libraries)>>), directory),
             Tail(libraries), directory)

download_libraries(w, version_json) ==
    LET w1 == download_library_files(w, get_library_urls(version_json.libraries))
        directory == PathDiv(EXTRACTED_LIBRARIES_DIRECTORY, version_json.id)
        w2 == mkdir(w1, directory, FALSE, TRUE)
    IN  extract_libraries(w2, version_json.libraries, directory)

\* A mutation of download_version that downloads the libraries before the
\* runtime.
download_version_libraries_first(w, version_json) ==
    LET client_path == version_jar_path(version_json.id)
        w1 == IF ~ok(w) \/ exists(w, client_path) THEN w
              ELSE download(w, version_json.downloads.client.url, client_path)
        w2 == download_libraries(w1, version_json)
        w3 == download_java(w2, version_json.javaVersion.majorVersion)
    IN  download_assets(w3, version_json)

download_version(w, version_json) ==
    LET client_path == version_jar_path(version_json.id)
        w1 == IF ~ok(w) \/ exists(w, client_path) THEN w
              ELSE download(w, version_json.downloads.client.url, client_path)
        w2 == download_java(w1, version_json.javaVersion.majorVersion)
        w3 == download_libraries(w2, version_json)
    IN  download_assets(w3, version_json)

----------------------------------------------------------------------------
(* Profiles.                                                               *)

MINECRAFT == Str(".minecraft")
VERSION == Str(".VERSION")

profile_path(name) == PathDiv(PROFILES_DIRECTORY, name)

LEGACY_INDEXES == {Str("legacy"), Str("pre-1.6")}

\* The loop of link_legacy_assets.
RECURSIVE link_objects(_, _, _)
link_objects(w, legacy_dir, objects) ==
    IF ~ok(w) \/ objects = <<>> THEN w
    ELSE LET l == legacy_dir \o Head(objects).key
         IN  IF exists(w, l)
             THEN link_objects(w, legacy_dir, Tail(objects))
             ELSE link_objects(
                      link(mkdir(w, Parent(l), TRUE, TRUE),
                           asset_path(Head(objects).hash), l),
                      legacy_dir, Tail(objects))

\* A mutation of link_legacy_assets without the test of the index id.
link_legacy_assets_every_index(w, profile_name, version_json) ==
    LET name == format_name(profile_name)
        asset_index_id == version_json.assetIndex.id
        index_path == asset_index_path(asset_index_id)
        legacy_dir == Append(PathDiv(profile_path(name), MINECRAFT),
                             Str("resources"))
    IN  IF ~ok(w) THEN w
        ELSE IF ~exists(w, index_path) THEN raise(w, "FileNotFoundError")
        ELSE link_objects(mkdir(w, legacy_dir, FALSE, TRUE), legacy_dir,
                          json_load(w.fs[index_path].data).objects)

link_legacy_assets(w, profile_name, version_json) ==
    LET name == format_name(profile_name)
        asset_index_id == version_json.assetIndex.id
        index_path == asset_index_path(asset_index_id)
        legacy_dir == Append(PathDiv(profile_path(name), MINECRAFT),
                             Str("resources"))
    IN  IF ~ok(w) THEN w
        ELSE IF asset_index_id \notin LEGACY_INDEXES THEN w
        ELSE IF ~exists(w, index_path) THEN raise(w, "FileNotFoundError")
        ELSE link_objects(mkdir(w, legacy_dir, FALSE, TRUE), legacy_dir,
                          json_load(w.fs[index_path].data).objects)

\* create_profile up to the marker file: the profile's directory tree.
create_profile_directory(w, name, version_id) ==
    LET n == format_name(name)
        w1 == mkdir(w, PathDiv(profile_path(n), MINECRAFT), TRUE, FALSE)
        marker == PathDiv(profile_path(n), VERSION)
    IN  write(open_w(w1, marker), marker, <<version_id>>)

create_profile(w, name, version_id) ==
    LET n == format_name(name)
        \* profiles.append(name), reached when nothing was raised
        append(w3) == IF ~ok(w3) THEN w3
                      ELSE [w3 EXCEPT !.profiles = Append(@, n)]
        \* the calls that take version_json
        acquire(r) ==
            append(link_legacy_assets(download_version(r.w, r.ret), n, r.ret))
    IN  acquire(get_version_json(
                    create_profile_directory(w, name, version_id), version_id))

profile_exists(w, name) == format_name(name) \in Range(w.profiles)

\* list.remove(x): the first occurrence goes.
remove(list, x) ==
    LET i == CHOOSE i \in DOMAIN list :
                 list[i] = x /\ \A j \in 1..(i - 1) : list[j] # x
    IN  SubSeq(list, 1, i - 1) \o SubSeq(list, i + 1, Len(list))

\* A mutation of delete_profile that removes nothing from the disk.
delete_profile_no_rmtree(w, name) ==
    LET n == format_name(name)
    IN  IF ~ok(w) THEN w
        ELSE IF n \in Range(w.profiles)
        THEN [w EXCEPT !.profiles = remove(@, n)]
        ELSE w

delete_profile(w, name) ==
    LET n == format_name(name)
        unregister(w1) ==
            IF ~ok(w1) THEN w1
            ELSE IF n \in Range(w1.profiles)
            THEN [w1 EXCEPT !.profiles = remove(@, n)]
            ELSE w1
    IN  unregister(rmtree(w, profile_path(n)))

----------------------------------------------------------------------------
(* launch_profile                                                          *)

APPLICATION_NAME == Str("MyMinecraftLauncher")
APPLICATION_VERSION == Str("1.0")

\* The global `username` as the main block sets it.
username == Str("Player")

\* str.split(): the words between runs of white space; `word` is the word
\* being read and `words` those read before it.
RECURSIVE split_loop(_, _, _, _)
split_loop(string, i, word, words) ==
    IF i > Len(string)
    THEN IF word = <<>> THEN words ELSE Append(words, word)
    ELSE IF string[i] \in Whitespace
    THEN split_loop(string, i + 1, <<>>,
                    IF word = <<>> THEN words ELSE Append(words, word))
    ELSE split_loop(string, i + 1, Append(word, string[i]), words)

split(string) == split_loop(string, 1, <<>>, <<>>)

\* str(path): the components joined by the separator of the platform.
RECURSIVE path_str(_)
path_str(path) ==
    IF path = <<>> THEN <<>>
    ELSE IF Len(path) = 1 THEN path[1]
    ELSE path[1] \o <<"\\">> \o path_str(Tail(path))

\* sep.join(strings)
RECURSIVE join(_, _)
join(sep, strings) ==
    IF strings = <<>> THEN <<>>
    ELSE IF Len(strings) = 1 THEN strings[1]
    ELSE strings[1] \o sep \o join(sep, Tail(strings))

\* [arg for arg in version_json["arguments"]["game"] if isinstance(arg, str)]
RECURSIVE str_arguments(_)
str_arguments(game) ==
    IF game = <<>> THEN <<>>
    ELSE IF Head(game).type = "str"
    THEN <<Head(game).value>> \o str_arguments(Tail(game))
    ELSE str_arguments(Tail(game))

game_args(version_json) ==
    IF "minecraftArguments" \in DOMAIN version_json
    THEN split(version_json.minecraftArguments)
    ELSE str_arguments(version_json.arguments.game)

\* The table format_values of launch_profile.
launch_format_values(version_id, working_dir, version_json) ==
    [key \in {<<k>> : k \in {"auth_player_name", "auth_session",
                              "auth_access_token", "auth_uuid", "auth_xuid",
                              "version_name", "version_type",
                              "game_directory", "game_assets", "assets_root",
                              "assets_index_name", "user_properties",
                              "user_type", "clientid"}} |->
        CASE key = <<"auth_player_name">> -> username
          [] key = <<"auth_uuid">> -> Str("00000000-0000-0000-0000-000000000000")
          [] key = <<"version_name">> -> version_id
          [] key = <<"game_directory">> -> path_str(working_dir)
          [] key = <<"game_assets">> ->
                 path_str(PathDiv(working_dir, Str("resources")))
          [] key = <<"assets_root">> -> path_str(ASSETS_DIRECTORY)
          [] key = <<"assets_index_name">> -> version_json.assetIndex.id
          [] key = <<"user_properties">> -> <<"{", "}">>
          [] OTHER -> <<>>]

\* args.extend(format_template(arg, **format_values) for arg in game_args):
\* the first template that fails ends it.
RECURSIVE format_args(_, _)
format_args(templates, kwargs) ==
    IF templates = <<>> THEN [err |-> "none", out |-> <<>>]
    ELSE LET formatted(first) ==
                 IF first.err # "none" THEN first
                 ELSE LET rest(others) ==
                              IF others.err # "none" THEN others
                              ELSE [err |-> "none",
                                    out |-> <<first.out>> \o others.out]
                      IN  rest(format_args(Tail(templates), kwargs))
         IN  formatted(format_template(Head(templates), kwargs))

\* The list `args` up to the main class.
jvm_args(version_id, version_json) ==
    <<path_str(PathDiv(JRE_DIRECTORIES[version_json.javaVersion.majorVersion],
                       JAVA_EXECUTABLE)),
      <<"-Djava.library.path=">>
          \o path_str(PathDiv(EXTRACTED_LIBRARIES_DIRECTORY, version_id)),
      <<"-Dminecraft.launcher.brand=">> \o APPLICATION_NAME,
      <<"-Dminecraft.launcher.version=">> \o APPLICATION_VERSION,
      <<"-cp">>,
      join(<<";">>, [i \in DOMAIN classpath(version_json.libraries, version_id) |->
                        path_str(classpath(version_json.libraries, version_id)[i])]),
      version_json.mainClass>>

\* How launch_profile ends: the exception it raises (err), whether it had
\* destroyed the window, whether subprocess.call started the child, and
\* the argument list and working directory it was given.
Launched(err, destroyed, spawned, args, cwd) ==
    [err |-> err, destroyed |-> destroyed, spawned |-> spawned,
     args |-> args, cwd |-> cwd]

\* open(path, "r"): the exception it raises, "none" when it opens.
open_r(w, path) ==
    IF ~exists(w, path) THEN "FileNotFoundError"
    ELSE IF is_dir(w, path) THEN "PermissionError"
    ELSE "none"

\* subprocess.call(args, cwd=working_dir): creating the process.
create_process(w, java_path, args, working_dir) ==
    IF ~is_dir(w, working_dir)
    THEN Launched("NotADirectoryError", TRUE, FALSE, args, working_dir)
    ELSE IF open_r(w, java_path) # "none"
    THEN Launched(open_r(w, java_path), TRUE, FALSE, args, working_dir)
    ELSE Launched("none", TRUE, TRUE, args, working_dir)

\* launch_profile from the line that reads java_version on.
launch_version(w, name, version_id, version_json) ==
    LET java_version == version_json.javaVersion.majorVersion
        working_dir == PathDiv(profile_path(name), MINECRAFT)
        format_values_ ==
            launch_format_values(version_id, working_dir, version_json)
        extended(game) ==
            IF game.err # "none"
            THEN Launched(game.err, FALSE, FALSE, <<>>, <<>>)
            ELSE create_process(
                     w, PathDiv(JRE_DIRECTORIES[java_version], JAVA_EXECUTABLE),
                     jvm_args(version_id, version_json) \o game.out,
                     working_dir)
    IN  IF java_version \notin DOMAIN JRE_DIRECTORIES
        THEN Launched("KeyError", FALSE, FALSE, <<>>, <<>>)
        ELSE extended(format_args(game_args(version_json), format_values_))

launch_profile(w, name) ==
    LET n == format_name(name)
        marker == PathDiv(profile_path(n), VERSION)
        read_json(version_id) ==
            LET path == version_json_path(version_id)
            IN  IF open_r(w, path) # "none"
                THEN Launched(open_r(w, path), FALSE, FALSE, <<>>, <<>>)
                ELSE IF ~w.fs[path].full
                THEN Launched("JSONDecodeError", FALSE, FALSE, <<>>, <<>>)
                ELSE launch_version(w, n, version_id,
                                    json_load(w.fs[path].data))
    IN  IF open_r(w, marker) # "none"
        THEN Launched(open_r(w, marker), FALSE, FALSE, <<>>, <<>>)
        ELSE read_json(w.fs[marker].data[1])

----------------------------------------------------------------------------
(* The UI handlers.                                                        *)

\* Python's truth value of what get_selection returns: None and the empty
\* string are false.
truthy(selection) == selection # None /\ selection[1] # <<>>

\* What is recorded of the delete_profile call a handler made: the file
\* system and the list `profiles` just before it, and the exception it
\* raised.
Deleted(before, name, after) ==
    [called |-> TRUE, name |-> format_name(name), fs |-> before.fs,
     profiles |-> before.profiles, err |-> after.err]

NotDeleted(w) ==
    [called |-> FALSE, name |-> <<>>, fs |-> w.fs, profiles |-> w.profiles,
     err |-> "none"]

caught(w) == [w EXCEPT !.err = "none"]

\* A mutation of NewProfileWindow._on_create without the profile_exists
\* test.
on_create_unchecked(w, name, selection) ==
    LET stage == IF ok(create_profile_directory(w, name, selection[1]))
                 THEN "acquisition" ELSE "directory"
        except(w1, w2) ==
            [w |-> w2, result |-> "error", err |-> w1.err, stage |-> stage,
             del |-> Deleted(caught(w1), name, w2)]
        try(w1) ==
            IF ok(w1)
            THEN [w |-> w1, result |-> "created", err |-> "none",
                  stage |-> "done", del |-> NotDeleted(w1)]
            ELSE except(w1, delete_profile(caught(w1), name))
    IN  IF truthy(selection)
        THEN try(create_profile(w, name, selection[1]))
        ELSE [w |-> w, result |-> "bell", err |-> "none", stage |-> "guard",
              del |-> NotDeleted(w)]

\* A mutation of NewProfileWindow._on_create whose except clause does not
\* call delete_profile.
on_create_no_cleanup(w, name, selection) ==
    LET stage == IF ok(create_profile_directory(w, name, selection[1]))
                 THEN "acquisition" ELSE "directory"
        try(w1) ==
            IF ok(w1)
            THEN [w |-> w1, result |-> "created", err |-> "none",
                  stage |-> "done", del |-> NotDeleted(w1)]
            ELSE [w |-> caught(w1), result |-> "error", err |-> w1.err,
                     stage |-> stage, del |-> NotDeleted(w1)]
    IN  IF truthy(selection) /\ ~profile_exists(w, name)
        THEN try(create_profile(w, name, selection[1]))
        ELSE [w |-> w, result |-> "bell", err |-> "none", stage |-> "guard",
              del |-> NotDeleted(w)]

\* NewProfileWindow._on_create: the world after it, how it ended
\* ("created", "error": the except clause ran, "bell"), the exception
\* create_profile raised and the stage it was raised in.
on_create(w, name, selection) ==
    LET stage == IF ok(create_profile_directory(w, name, selection[1]))
                 THEN "acquisition" ELSE "directory"
        except(w1, w2) ==
            [w |-> w2, result |-> "error", err |-> w1.err, stage |-> stage,
             del |-> Deleted(caught(w1), name, w2)]
        try(w1) ==
            IF ok(w1)
            THEN [w |-> w1, result |-> "created", err |-> "none",
                  stage |-> "done", del |-> NotDeleted(w1)]
            ELSE except(w1, delete_profile(caught(w1), name))
    IN  IF truthy(selection) /\ ~profile_exists(w, name)
        THEN try(create_profile(w, name, selection[1]))
        ELSE [w |-> w, result |-> "bell", err |-> "none", stage |-> "guard",
              del |-> NotDeleted(w)]

\* ApplicationWindow._on_delete
on_delete(w, selection) ==
    LET deleted(w1) ==
            [w |-> caught(w1),
             result |-> IF ok(w1) THEN "deleted" ELSE "error",
             err |-> w1.err, stage |-> "done",
             del |-> Deleted(w, selection[1], w1)]
    IN  IF truthy(selection)
        THEN deleted(delete_profile(w, selection[1]))
        ELSE [w |-> w, result |-> "bell", err |-> "none", stage |-> "guard",
          del |-> NotDeleted(w)]

\* ApplicationWindow._on_launch, up to where subprocess.call has created
\* the child process or an exception was caught.
on_launch(w, selection) ==
    IF truthy(selection)
    THEN launch_profile(w, selection[1])
    ELSE Launched("none", FALSE, FALSE, <<>>, <<>>)

----------------------------------------------------------------------------
(* The state machine: the launcher after start-up on a fresh installation, *)
(* and one action per UI handler.                                          *)

\* The directories the main block creates, below the ones the system has.
StartDirectories ==
    {<<>>, <<Str("TEMP")>>, <<Str("LOCALAPPDATA")>>,
     TEMP_DIRECTORY, APPLICATION_DIRECTORY, ASSETS_DIRECTORY,
     ASSET_OBJECTS_DIRECTORY, ASSET_INDEXES_DIRECTORY, PROFILES_DIRECTORY,
     LIBRARIES_DIRECTORY, EXTRACTED_LIBRARIES_DIRECTORY, JAVA_DIRECTORY,
     VERSIONS_DIRECTORY}

NoFault == [at |-> 0, mode |-> "connect"]

Faults == {NoFault} \cup [at : 1..MaxFetches, mode : {"connect", "read"}]

\* The names typed into the New Profile window.
ProfileNames ==
    {<<"a">>, <<"a", " ">>, <<>>, <<".">>}

NoCall == [fn |-> "none", arg |-> <<>>, ret |-> <<>>, done |-> FALSE]

Started == [op |-> "start", name |-> <<>>, selection |-> None,
            result |-> "none", err |-> "none", stage |-> "none",
            failed |-> FALSE,
            del |-> [called |-> FALSE, name |-> <<>>,
                     fs |-> [p \in StartDirectories |-> Dir],
                     profiles |-> <<>>, err |-> "none"]]

\* No child process has been started.
NoChild == [state |-> "none", args |-> <<>>, cwd |-> <<>>]

StartState ==
    /\ fs = [p \in StartDirectories |-> Dir]
    /\ profiles = <<>>
    /\ net = <<>>
    /\ failures = [id \in ManifestIds |-> 0]
    /\ last = Started
    /\ pc = "mainloop"
    /\ child = NoChild

Init == StartState /\ call = NoCall

\* The world a handler starts in.
World(fault) ==
    [fs |-> fs, profiles |-> profiles, net |-> net, calls |-> 0,
     trace |-> <<>>, fault |-> fault, err |-> "none"]

\* Whether the handler that ended in world w met its fault.
fault_met(w) == w.fault.at \in 1..w.calls

Finish(op, name, selection, r) ==
    /\ pc = "mainloop"
    /\ fs' = r.w.fs
    /\ profiles' = r.w.profiles
    /\ net' = r.w.net
    /\ failures' = IF fault_met(r.w)
                   THEN [failures EXCEPT ![selection[1]] = @ + 1]
                   ELSE failures
    /\ last' = [op |-> op, name |-> name, selection |-> selection,
                result |-> r.result, err |-> r.err, stage |-> r.stage,
                failed |-> fault_met(r.w), del |-> r.del]
    /\ UNCHANGED <<call, pc, child>>

\* The acquisitions aborted so far.
Aborted == failures[V1] + failures[V2]

\* The faults a handler that makes `calls` urlopen calls can meet.
FaultsWithin(calls) ==
    {f \in Faults : f.at <= calls /\ (f.at = 0 \/ Aborted < MaxFailures)}

\* The Create button of the New Profile window, for a name among `names`
\* typed into it and a version among `ids` selected in its list.
Create(names, ids) ==
    \E name \in names, selection \in {None} \cup {Some(id) : id \in ids} :
        /\ call = NoCall
        /\ Len(profiles) < MaxProfiles
        /\ LET handle(unfailing) ==
                   \E fault \in FaultsWithin(unfailing.w.calls) :
                       Finish("create", name, selection,
                              IF fault = NoFault THEN unfailing
                              ELSE on_create(World(fault), name, selection))
           IN  handle(on_create(World(NoFault), name, selection))

\* The Delete button and menu entry of the main window; the list box
\* shows `profiles`.
OnDelete ==
    \E selection \in {None} \cup {Some(profiles[i]) : i \in DOMAIN profiles} :
        /\ call = NoCall
        /\ Finish("delete", <<>>, selection,
                  on_delete(World(NoFault), selection))

\* Profiles of several names, all of the legacy version.
OnCreate == Create(ProfileNames, {V1})

Next == OnCreate \/ OnDelete

Spec == Init /\ [][Next]_vars

\* One profile name, created and deleted again and again with either
\* version: the acquisitions into the shared stores.
OnAcquire == Create({<<"a">>}, ManifestIds)

NextStore == OnAcquire \/ OnDelete

SpecStore == Init /\ [][NextStore]_vars

----------------------------------------------------------------------------
(* The launcher started on an installation that earlier runs have left,    *)
(* and the launch of a profile.                                            *)

\* The subsets of S of at most n elements.
RECURSIVE SubsetsUpTo(_, _)
SubsetsUpTo(S, n) ==
    IF n = 0 THEN {{}}
    ELSE SubsetsUpTo(S, n - 1)
             \cup {T \cup {x} : T \in SubsetsUpTo(S, n - 1), x \in S}

\* The lists that hold each element of S once.
Perms(S) ==
    {f \in [1..Cardinality(S) -> S] : \A i, j \in DOMAIN f : f[i] = f[j] => i = j}

\* os.listdir(directory): the names in the directory, in some order.
listdir(files, directory) ==
    Perms({Last(p) : p \in {q \in DOMAIN files : q # <<>> /\ Parent(q) = directory}})

\* The world after start-up on a fresh installation.
Fresh ==
    [fs |-> [p \in StartDirectories |-> Dir], profiles |-> <<>>, net |-> <<>>,
     calls |-> 0, trace |-> <<>>, fault |-> NoFault, err |-> "none"]

\* What two runs of create_profile leave: profile "a" of the first
\* version and profile "b" of the second.
Installed == create_profile(create_profile(Fresh, <<"a">>, V1), <<"b">>, V2)

InstalledFiles == {p \in DOMAIN Installed.fs : Installed.fs[p].kind = "file"}

\* The main block on an installation of which some files are gone.
InitInstalled ==
    /\ \E missing \in SubsetsUpTo(InstalledFiles, MaxMissing) :
           fs = [p \in DOMAIN Installed.fs \ missing |-> Installed.fs[p]]
    /\ profiles \in listdir(fs, PROFILES_DIRECTORY)
    /\ net = <<>>
    /\ failures = [id \in ManifestIds |-> 0]
    /\ last = Started
    /\ pc = "mainloop"
    /\ child = NoChild
    /\ call = NoCall

\* The Launch button, the double click and the menu entry of the main
\* window: _on_launch up to where subprocess.call has started the child
\* process and waits for it, or to its end when no child was started.
OnLaunch ==
    \E selection \in {None} \cup {Some(profiles[i]) : i \in DOMAIN profiles} :
        /\ call = NoCall
        /\ pc = "mainloop"
        /\ LET handle(r) ==
                   /\ pc' = IF r.spawned THEN "subprocess.call"
                            ELSE IF r.destroyed THEN "destroyed"
                            ELSE "mainloop"
                   /\ child' = IF r.spawned
                               THEN [state |-> "running", args |-> r.args,
                                     cwd |-> r.cwd]
                               ELSE child
                   /\ last' = [op |-> "launch", name |-> <<>>,
                               selection |-> selection,
                               result |-> IF ~truthy(selection) THEN "bell"
                                          ELSE IF r.spawned THEN "running"
                                          ELSE "error",
                               err |-> r.err, stage |-> "done",
                               failed |-> FALSE,
                               del |-> NotDeleted(World(NoFault))]
           IN  handle(on_launch(World(NoFault), selection))
        /\ UNCHANGED <<fs, profiles, net, failures, call>>

\* The child process exits.
ChildExit ==
    /\ child.state = "running"
    /\ child' = [child EXCEPT !.state = "exited"]
    /\ UNCHANGED <<fs, profiles, net, failures, last, call, pc>>

\* subprocess.call returns, which it does once the child has exited, and
\* with it launch_profile and _on_launch.
OnLaunchReturn ==
    /\ pc = "subprocess.call"
    /\ child.state = "exited"
    /\ pc' = "destroyed"
    /\ last' = [last EXCEPT !.result = "returned"]
    /\ UNCHANGED <<fs, profiles, net, failures, call, child>>

NextLaunch == OnLaunch \/ ChildExit \/ OnLaunchReturn

SpecLaunch == InitInstalled /\ [][NextLaunch]_vars

----------------------------------------------------------------------------
(* Calls of the pure functions: the argument is drawn from a bounded set   *)
(* and the function is applied to it.                                      *)

Calls(fn, args, ret) ==
    {[fn |-> fn, arg |-> a, ret |-> ret, done |-> FALSE] : a \in args}

Return(fn, value) ==
    /\ call.fn = fn
    /\ ~call.done
    /\ call' = [call EXCEPT !.ret = value, !.done = TRUE]
    /\ UNCHANGED <<fs, profiles, net, failures, last, pc, child>>

InitRules ==
    /\ StartState
    /\ call \in Calls("allowed_by_rules", SeqsUpTo(Rules, MaxRules), FALSE)

CallAllowedByRules == Return("allowed_by_rules", allowed_by_rules(call.arg))

SpecRules == InitRules /\ [][CallAllowedByRules]_vars

Libraries == {LibA, LibB, LibC, LibD, LibE}

InitLibs ==
    /\ StartState
    /\ call \in Calls("classpath", SeqsUpTo(Libraries, MaxLibs), <<>>)

CallClasspath == Return("classpath", classpath(call.arg, V1))

SpecLibs == InitLibs /\ [][CallClasspath]_vars

TemplateChars == {"$", "{", "}", "k", "x"}

\* The substitution table: one key, "k".
format_values == (<<"k">> :> <<"S", "t", "e", "v", "e">>)

InitTemplate ==
    /\ StartState
    /\ call \in Calls("format_template",
                      SeqsUpTo(TemplateChars, MaxTemplateLen),
                      [err |-> "none", out |-> <<>>])

CallFormatTemplate ==
    Return("format_template", format_template(call.arg, format_values))

SpecTemplate == InitTemplate /\ [][CallFormatTemplate]_vars

\* The characters of a name: white space, the four characters format_name
\* replaces, the dot, and two that it leaves alone.
NameChars == {" ", "/", "\\", "\"", "'", ".", "a", "_"}

InitName ==
    /\ StartState
    /\ call \in Calls("format_name", SeqsUpTo(NameChars, MaxNameLen), <<>>)

CallFormatName == Return("format_name", format_name(call.arg))

SpecName == InitName /\ [][CallFormatName]_vars

\* The resources directory of the profile of a name.
resources(name) ==
    Append(PathDiv(profile_path(format_name(name)), MINECRAFT),
           Str("resources"))

\* A file that is not the launcher's.
Foreign == File(<<Str("foreign")>>, TRUE)

\* The world with a foreign file at each of the paths.
RECURSIVE Placed(_, _)
Placed(w, paths) ==
    IF paths = {} THEN w
    ELSE LET p == CHOOSE p \in paths : TRUE
             place(w1) == [w1 EXCEPT !.fs = (p :> Foreign) @@ @]
         IN  place(makedirs(Placed(w, paths \ {p}), Parent(p)))

\* create_profile(name, id) up to its call of link_legacy_assets, on an
\* installation where the versions `earlier` have been acquired.
RECURSIVE Acquired(_)
Acquired(earlier) ==
    IF earlier = {} THEN Fresh
    ELSE LET id == CHOOSE id \in earlier : TRUE
             acquire(r) == download_version(r.w, r.ret)
         IN  acquire(get_version_json(Acquired(earlier \ {id}), id))

BeforeLink(earlier, name, id) ==
    LET acquire(r) == download_version(r.w, r.ret)
    IN  acquire(get_version_json(
                    create_profile_directory(Acquired(earlier), name, id), id))

\* The virtual paths of the legacy index.
VirtualPaths == {o.key : o \in Range(AssetIndexJson(Str("legacy")).objects)}

InitLink ==
    /\ profiles = <<>>
    /\ failures = [id \in ManifestIds |-> 0]
    /\ last = Started
    /\ pc = "mainloop"
    /\ child = NoChild
    /\ \E earlier \in SUBSET ManifestIds, name \in ProfileNames,
          id \in ManifestIds, existing \in SUBSET VirtualPaths :
           LET start(w) ==
                   /\ fs = w.fs
                   /\ net = w.net
                   /\ call \in Calls("link_legacy_assets",
                                     {[name |-> name, id |-> id,
                                       existing |-> existing]},
                                     "none")
           IN  start(Placed(BeforeLink(earlier, name, id),
                            {resources(name) \o key : key \in existing}))

CallLinkLegacyAssets ==
    /\ call.fn = "link_legacy_assets"
    /\ ~call.done
    /\ LET returns(w) ==
               /\ fs' = w.fs
               /\ net' = w.net
               /\ call' = [call EXCEPT !.ret = w.err, !.done = TRUE]
       IN  returns(link_legacy_assets(
                       World(NoFault), call.arg.name,
                       get_version_json(World(NoFault), call.arg.id).ret))
    /\ UNCHANGED <<profiles, failures, last, pc, child>>

SpecLink == InitLink /\ [][CallLinkLegacyAssets]_vars

\* The installation with the descriptors of both versions in the cache.
Described == get_version_json(get_version_json(Fresh, V1).w, V2).w

\* download_version for the version of id `id`, its descriptor read from
\* the cache, with the failure `fault` of a urlopen call.
acquire_version(w, id, fault) ==
    download_version([w EXCEPT !.fault = fault],
                     get_version_json(w, id).ret)

\* What an earlier download_version, finished or aborted, has left.
Acquisitions ==
    {Described} \cup {acquire_version(Described, id, fault) :
                         id \in ManifestIds, fault \in Faults}

InitVersion ==
    /\ profiles = <<>>
    /\ failures = [id \in ManifestIds |-> 0]
    /\ last = Started
    /\ pc = "mainloop"
    /\ child = NoChild
    /\ \E before \in Acquisitions :
           /\ fs = before.fs
           /\ net = before.net
    /\ call \in Calls("download_version",
                      [id : ManifestIds, fault : Faults],
                      [err |-> "none", trace |-> <<>>])

CallDownloadVersion ==
    /\ call.fn = "download_version"
    /\ ~call.done
    /\ LET returns(w) ==
               /\ fs' = w.fs
               /\ net' = w.net
               /\ call' = [call EXCEPT !.ret = [err |-> w.err,
                                               trace |-> w.trace],
                                       !.done = TRUE]
       IN  returns(acquire_version(World(NoFault), call.arg.id,
                                   call.arg.fault))
    /\ UNCHANGED <<profiles, failures, last, pc, child>>

SpecVersion == InitVersion /\ [][CallDownloadVersion]_vars

\* Launchers running at once on the same application directory, each in
\* the body of the loop of download_assets for one object of the index.
MaxCallers == 2

Callers == 1..MaxCallers

At(c, line) ==
    /\ call.fn = "download_assets"
    /\ call.ret[c].pc = line

Goto(c, line, full) ==
    call' = [call EXCEPT !.ret[c] = [pc |-> line, full |-> full]]

InitAssets ==
    /\ StartState
    /\ \E hashes \in [Callers -> {H1, H2}] :
           call = [fn |-> "download_assets", arg |-> hashes,
                   ret |-> [c \in Callers |->
                               [pc |-> "makedirs", full |-> TRUE]],
                   done |-> FALSE]

\* os.makedirs(ASSET_OBJECTS_DIRECTORY / short_hash, exist_ok=True)
Makedirs(c) ==
    /\ At(c, "makedirs")
    /\ fs' = makedirs(World(NoFault),
                      PathDiv(ASSET_OBJECTS_DIRECTORY,
                              SubSeq(call.arg[c], 1, 2))).fs
    /\ Goto(c, "exists", TRUE)
    /\ UNCHANGED <<profiles, net, failures, last, pc, child>>

\* if path.exists(): continue
PathExists(c) ==
    /\ At(c, "exists")
    /\ IF exists(World(NoFault), asset_path(call.arg[c]))
       THEN Goto(c, "continue", fs[asset_path(call.arg[c])].full)
       ELSE Goto(c, "urlopen", TRUE)
    /\ UNCHANGED <<fs, profiles, net, failures, last, pc, child>>

\* with urlopen(url) as res:
Urlopen(c) ==
    /\ At(c, "urlopen")
    /\ net' = urlopen(World(NoFault), asset_url(call.arg[c])).net
    /\ Goto(c, "open", TRUE)
    /\ UNCHANGED <<fs, profiles, failures, last, pc, child>>

\* with path.open("wb") as file:
OpenWb(c) ==
    /\ At(c, "open")
    /\ fs' = open_w(World(NoFault), asset_path(call.arg[c])).fs
    /\ Goto(c, "write", TRUE)
    /\ UNCHANGED <<profiles, net, failures, last, pc, child>>

\* file.write(res.read())
Write(c) ==
    /\ At(c, "write")
    /\ fs' = write(World(NoFault), asset_path(call.arg[c]),
                   asset_url(call.arg[c])).fs
    /\ Goto(c, "continue", TRUE)
    /\ UNCHANGED <<profiles, net, failures, last, pc, child>>

NextAssets ==
    \E c \in Callers :
       \/ Makedirs(c)
       \/ PathExists(c)
       \/ Urlopen(c)
       \/ OpenWb(c)
       \/ Write(c)

SpecAssets == InitAssets /\ [][NextAssets]_vars

\* The major versions asked of download_java.
JavaVersions == {7, 8, 11, 17, 21}

\* The file system after download_java for each of `versions`.
RECURSIVE WithRuntimes(_)
WithRuntimes(versions) ==
    IF versions = {} THEN Fresh
    ELSE LET v == CHOOSE v \in versions : TRUE
         IN  download_java(WithRuntimes(versions \ {v}), v)

InitJava ==
    /\ profiles = <<>>
    /\ net = <<>>
    /\ failures = [id \in ManifestIds |-> 0]
    /\ last = Started
    /\ pc = "mainloop"
    /\ child = NoChild
    /\ \E installed \in SUBSET DOMAIN JRE_DIRECTORIES :
           /\ fs = WithRuntimes(installed).fs
           /\ call \in Calls("download_java",
                             [version : JavaVersions,
                              fault : {f \in Faults : f.at <= 1},
                              installed : {installed}],
                             "none")

\* download_java(version), with the failure of its urlopen call that the
\* argument names.
CallDownloadJava ==
    /\ call.fn = "download_java"
    /\ ~call.done
    /\ LET returns(w) ==
               /\ fs' = w.fs
               /\ net' = w.net
               /\ call' = [call EXCEPT !.ret = w.err, !.done = TRUE]
       IN  returns(download_java(World(call.arg.fault), call.arg.version))
    /\ UNCHANGED <<profiles, failures, last, pc, child>>

SpecJava == InitJava /\ [][CallDownloadJava]_vars

----------------------------------------------------------------------------
(* The rule evaluator.                                                     *)

Returned(fn) == call.fn = fn /\ call.done

\* What C7 says the evaluator returns.
C7_Verdict(rules) ==
    LET matching == {i \in DOMAIN rules : rules[i].os = "windows"}
        unconditional == {i \in DOMAIN rules : rules[i].os = "none"}
    IN  IF matching # {} THEN rules[Min(matching)].action = "allow"
        ELSE IF unconditional # {} THEN rules[Max(unconditional)].action = "allow"
        ELSE FALSE

\* C7: allowed_by_rules returns the action of the first rule whose OS is
\* the target platform, wherever it stands; when there is none, the action
\* of the last rule without an OS; when there is none of those, false.
\* Rules whose OS does not match have no effect.
C7_AllowedByRules ==
    Returned("allowed_by_rules") => call.ret = C7_Verdict(call.arg)

\* C7's example: [{allow, no OS}, {disallow, os=other}] gives true.
C7_Witness ==
    /\ Returned("allowed_by_rules")
    /\ call.arg = <<Allow("none"), Disallow("osx")>>
    /\ call.ret = TRUE

----------------------------------------------------------------------------
(* The classpath.                                                          *)

\* What C8 says one library entry contributes.
C8_Entry(library) ==
    IF library.has_rules /\ ~C7_Verdict(library.rules) THEN <<>>
    ELSE (IF library.native = None THEN <<>>
          ELSE <<Append(LIBRARIES_DIRECTORY, Last(library.native[1]))>>)
         \o (IF library.artifact = None THEN <<>>
             ELSE <<Append(LIBRARIES_DIRECTORY, Last(library.artifact[1]))>>)

RECURSIVE C8_Entries(_)
C8_Entries(libraries) ==
    IF libraries = <<>> THEN <<>>
    ELSE C8_Entries(Front(libraries)) \o C8_Entry(Last(libraries))

\* C8: the classpath is, for each library in declared order that carries
\* no rules or whose rules are accepted, its native artifact and then its
\* main artifact, and the client jar last.
C8_Classpath ==
    Returned("classpath") =>
        call.ret = C8_Entries(call.arg)
                       \o <<Append(VERSIONS_DIRECTORY, <<"v1", ".jar">>)>>

\* C8's example: [A(rules reject), B(native+main), C(main only)] gives
\* [B-native, B-main, C-main, clientJar].
C8_Witness ==
    /\ Returned("classpath")
    /\ call.arg = <<LibA, LibB, LibC>>
    /\ call.ret = <<Append(LIBRARIES_DIRECTORY, Str("b-natives.jar")),
                    Append(LIBRARIES_DIRECTORY, Str("b.jar")),
                    Append(LIBRARIES_DIRECTORY, Str("c.jar")),
                    Append(VERSIONS_DIRECTORY, <<"v1", ".jar">>)>>

----------------------------------------------------------------------------
(* Template substitution.                                                  *)

\* string has "${" at position i.
Opens(string, i) ==
    /\ i + 1 <= Len(string)
    /\ string[i] = "$"
    /\ string[i + 1] = "{"

\* The position of the "}" that terminates the "${" at i, 0 for none.
Closes(string, i) ==
    LET after == {j \in (i + 2)..Len(string) : string[j] = "}"}
    IN  IF after = {} THEN 0 ELSE Min(after)

KeyAt(string, i) == SubSeq(string, i + 2, Closes(string, i) - 1)

\* The placeholders of string, scanning from position i: a "${" inside
\* the key of an earlier placeholder is part of that key.
RECURSIVE Placeholders(_, _)
Placeholders(string, i) ==
    IF i > Len(string) THEN {}
    ELSE IF ~Opens(string, i) THEN Placeholders(string, i + 1)
    ELSE IF Closes(string, i) = 0 THEN {i}
    ELSE {i} \cup Placeholders(string, Closes(string, i) + 1)

Unterminated(string) ==
    \E i \in Placeholders(string, 1) : Closes(string, i) = 0

UnknownKey(string, kwargs) ==
    \E i \in Placeholders(string, 1) :
        Closes(string, i) # 0 /\ KeyAt(string, i) \notin DOMAIN kwargs

\* What C9 says template substitution returns for a string from position
\* i on.
RECURSIVE C9_Substituted(_, _, _)
C9_Substituted(string, kwargs, i) ==
    IF i > Len(string) THEN <<>>
    ELSE IF Opens(string, i)
    THEN kwargs[KeyAt(string, i)]
             \o C9_Substituted(string, kwargs, Closes(string, i) + 1)
    ELSE <<string[i]>> \o C9_Substituted(string, kwargs, i + 1)

\* C9: for a string in which every "${" is terminated and names a key of
\* the table, format_template returns the string with each "${key}"
\* replaced by the key's value and every other character copied, a "$"
\* that no "{" follows included, also as the last character.
C9_Substitution ==
    (/\ Returned("format_template")
     /\ ~Unterminated(call.arg)
     /\ ~UnknownKey(call.arg, format_values))
    => (/\ call.ret.err = "none"
        /\ call.ret.out = C9_Substituted(call.arg, format_values, 1))

\* C10: format_template fails with MalformedTemplate when the string has
\* a "${" that no "}" terminates, with UnknownTemplateKey when a
\* terminated "${key}" names a key that is not in the table, and no string
\* without these defects fails.
C10_Failures ==
    Returned("format_template") =>
        /\ (Unterminated(call.arg) /\ ~UnknownKey(call.arg, format_values))
               => call.ret.err = "Format should be terminated."
        /\ (UnknownKey(call.arg, format_values) /\ ~Unterminated(call.arg))
               => call.ret.err = "KeyError"
        /\ (~Unterminated(call.arg) /\ ~UnknownKey(call.arg, format_values))
               => call.ret.err = "none"

----------------------------------------------------------------------------
(* The asset store and the acquisition of a version.                       *)

Hashes == {H1, H2}

\* A file that was written in full is at path p.
FullAt(p) == p \in DOMAIN fs /\ fs[p].kind = "file" /\ fs[p].full

\* assets/objects/<hash[0:2]>/<hash>
C1_ShardPath(hash) ==
    ASSET_OBJECTS_DIRECTORY \o <<<<hash[1], hash[2]>>, hash>>

\* C1: while no fetch has failed, every asset hash has been fetched at
\* most once, and it has been fetched exactly when its shard path exists:
\* an acquisition that finds the path fetches nothing.
C1_FetchedAtMostOnce ==
    Aborted = 0 =>
        \A hash \in Hashes :
            /\ fetches(net, asset_url(hash)) <= 1
            /\ fetches(net, asset_url(hash)) = 1
                   <=> C1_ShardPath(hash) \in DOMAIN fs

\* Both versions were acquired without a failure: H1 was met three times
\* (twice in the legacy index, once in the other) and fetched once.
C1_Witness ==
    /\ Aborted = 0
    /\ last.op = "create" /\ last.result = "created"
    /\ FullAt(asset_index_path(Str("legacy")))
    /\ FullAt(asset_index_path(Str("5")))
    /\ fetches(net, asset_url(H1)) = 1
    /\ fetches(net, asset_url(H2)) = 1

\* The final destinations of the downloads: asset objects, library
\* artifacts and client jars.
Destinations ==
    {p \in DOMAIN fs :
        /\ fs[p].kind = "file"
        /\ \/ IsPrefix(ASSET_OBJECTS_DIRECTORY, p)
           \/ Parent(p) = LIBRARIES_DIRECTORY
           \/ \E id \in ManifestIds : p = version_jar_path(id)}

\* C6: a file is at a final destination only if its fetch completed.
C6_NoPartialFile == \A p \in Destinations : fs[p].full

\* Everything version id requires is present in full.
C5_Complete(id) ==
    /\ FullAt(version_jar_path(id))
    /\ FullAt(Append(JRE_DIRECTORIES[VersionJson(id).javaVersion.majorVersion],
                     JAVA_EXECUTABLE))
    /\ \A url \in Range(get_library_urls(VersionJson(id).libraries)) :
           FullAt(library_path(url))
    /\ \A object \in Range(AssetIndexJson(VersionJson(id).assetIndex.id).objects) :
           FullAt(C1_ShardPath(object.hash))

\* C5: once an acquisition of a version was aborted, an acquisition of
\* that version in which no fetch fails ends with the client jar, the
\* runtime, the accepted libraries and the asset objects present in full.
C5_RetryCompletes ==
    (/\ last.op = "create"
     /\ last.result # "bell"
     /\ ~last.failed
     /\ failures[last.selection[1]] > 0)
    => (/\ last.result = "created"
        /\ C5_Complete(last.selection[1]))

----------------------------------------------------------------------------
(* The profile store.                                                      *)

Registered(name) == name \in Range(profiles)

\* The files at and below path p.
Subtree(files, p) == {q \in DOMAIN files : IsPrefix(p, q)}

\* C2: a Create whose sanitized name is that of a registered profile is
\* refused (the handler rings the bell and calls nothing), and the file
\* system and the registry are left as they were.
C2_CreateExisting ==
    [][(/\ last'.op = "create"
        /\ truthy(last'.selection)
        /\ format_name(last'.name) \in {format_name(profiles[i]) : i \in DOMAIN profiles})
       => (/\ last'.result = "bell"
           /\ fs' = fs
           /\ profiles' = profiles)]_vars

\* "a " was refused because "a" is registered.
C2_Witness ==
    /\ last.op = "create"
    /\ last.result = "bell"
    /\ truthy(last.selection)
    /\ ~Registered(last.name)
    /\ Registered(format_name(last.name))
    /\ profile_path(format_name(last.name)) \in DOMAIN fs

\* The handler's create_profile failed during the acquisition.
AcquisitionFailed ==
    /\ last.op = "create"
    /\ last.result = "error"
    /\ last.stage = "acquisition"

\* The files outside the profiles directory.
Shared(files) == {p \in DOMAIN files : ~IsPrefix(PROFILES_DIRECTORY, p)}

\* C3: when the acquisition of a Create has failed and the handler has
\* finished, the profile's directory is gone and the name is not
\* registered, and what was in the shared stores when it failed is still
\* there.
C3_CleanupOnFailure ==
    AcquisitionFailed =>
        /\ profile_path(format_name(last.name)) \notin DOMAIN fs
        /\ ~Registered(format_name(last.name))
        /\ \A p \in Shared(last.del.fs) :
               p \in DOMAIN fs /\ fs[p] = last.del.fs[p]

\* The acquisition failed after the client jar had been placed.
C3_Witness ==
    /\ AcquisitionFailed
    /\ last.failed
    /\ FullAt(version_jar_path(last.selection[1]))
    /\ profile_path(format_name(last.name)) \in DOMAIN last.del.fs

\* A handler called delete_profile for a name that was not registered.
DeletedUnregistered ==
    /\ last.del.called
    /\ last.del.name \notin Range(last.del.profiles)

\* C4 as claimed: Delete for a name that is not registered raises no error
\* and changes neither the registry nor the disk.
C4_DeleteUnregisteredNoOp ==
    DeletedUnregistered =>
        /\ last.del.err = "none"
        /\ profiles = last.del.profiles
        /\ fs = last.del.fs

\* C4 as amended: Delete for a name that is not registered leaves the
\* registry unchanged; it removes the directory of the sanitized name with
\* all that is in it, and nothing else, when that directory exists, and
\* raises an error, changing nothing, when it does not.
C4_DeleteUnregistered ==
    DeletedUnregistered =>
        LET p == profile_path(last.del.name)
        IN  /\ profiles = last.del.profiles
            /\ IF p \in DOMAIN last.del.fs /\ last.del.fs[p].kind = "dir"
               THEN /\ last.del.err = "none"
                    /\ DOMAIN fs = DOMAIN last.del.fs \ Subtree(last.del.fs, p)
                    /\ \A q \in DOMAIN fs : fs[q] = last.del.fs[q]
               ELSE /\ last.del.err # "none"
                    /\ fs = last.del.fs

\* The clean-up after a failed Create deleted the directory of a name that
\* was not registered.
C4_Witness ==
    /\ DeletedUnregistered
    /\ last.del.err = "none"
    /\ profile_path(last.del.name) \in DOMAIN last.del.fs
    /\ profile_path(last.del.name) \notin DOMAIN fs

----------------------------------------------------------------------------
(* Name sanitization.                                                      *)

C11_Forbidden == {"/", "\\", "\"", "'"}

\* The string without its leading and trailing white space.
C11_Trimmed(name) ==
    LET inked == {i \in DOMAIN name : name[i] # " "}
    IN  IF inked = {} THEN <<>> ELSE SubSeq(name, Min(inked), Max(inked))

\* C11: format_name returns the trimmed input with every "/", "\", '"'
\* and "'" replaced by "_", so a string with none of the four; a trimmed
\* input that is exactly ".." gives "__".
C11_FormatName ==
    Returned("format_name") =>
        LET t == C11_Trimmed(call.arg)
        IN  /\ \A i \in DOMAIN call.ret : call.ret[i] \notin C11_Forbidden
            /\ IF t = <<".", ".">> THEN call.ret = <<"_", "_">>
               ELSE /\ Len(call.ret) = Len(t)
                    /\ \A i \in DOMAIN t :
                           call.ret[i] = IF t[i] \in C11_Forbidden THEN "_"
                                         ELSE t[i]

\* " .." is trimmed to ".." and mapped to "__".
C11_Witness ==
    /\ Returned("format_name")
    /\ call.arg = <<" ", ".", ".">>
    /\ call.ret = <<"_", "_">>

----------------------------------------------------------------------------
(* The launch.                                                             *)

\* The version the marker file of the selected profile names.
C12_Version == fs[PathDiv(profile_path(format_name(last.selection[1])), VERSION)].data[1]

\* What the launch of version id needs in the local store: the cached
\* descriptor, the client jar, the artifacts of the accepted libraries and
\* the executable of the runtime.
C12_Required(id) ==
    {version_json_path(id), version_jar_path(id),
     Append(JRE_DIRECTORIES[VersionJson(id).javaVersion.majorVersion],
            JAVA_EXECUTABLE)}
        \cup {Append(LIBRARIES_DIRECTORY, Last(url)) :
                 url \in Range(get_library_urls(VersionJson(id).libraries))}

\* C12: the launch of a profile for whose version the descriptor or a
\* required artifact is missing fails, and no child process is started.
C12_NotAcquired ==
    (/\ last.op = "launch"
     /\ truthy(last.selection)
     /\ PathDiv(profile_path(format_name(last.selection[1])), VERSION) \in DOMAIN fs
     /\ \E p \in C12_Required(C12_Version) : p \notin DOMAIN fs)
    => (/\ last.err # "none"
        /\ child.state = "none")

\* C18: when launch_profile has started the child process, with the
\* profile's game-data directory as its working directory, the launch is
\* over: the UI thread is not in the call that started the child while
\* the child runs.
C18_LaunchOnlyInitiates ==
    child.state = "running" =>
        /\ child.cwd = Append(profile_path(format_name(last.selection[1])),
                              MINECRAFT)
        /\ pc # "subprocess.call"

----------------------------------------------------------------------------
(* The descriptor cache.                                                   *)

\* The descriptor that json.load makes of the cached file of version id.
C13_Cached(files, id) == json_load(files[version_json_path(id)].data)

\* The descriptor that json.load makes of the response for version id.
C13_Fetched(id) == json_load(Body(version_url(id)))

\* C13: in every step of the launcher and for every version id, the
\* descriptor is requested from the network only when there is no cached
\* file for id, and then once; when the handler does not fail the file is
\* there afterwards; a cached file stays as it is; and what is read from
\* the cached file is the descriptor that was fetched, with the same
\* classpath and game arguments.
C13_DescriptorCache ==
    [][\A id \in ManifestIds :
          LET path == version_json_path(id)
              before == fetches(net, version_url(id))
              after == fetches(net', version_url(id))
          IN  /\ after # before =>
                     /\ path \notin DOMAIN fs
                     /\ after = before + 1
                     /\ ~last'.failed => path \in DOMAIN fs'
              /\ path \in DOMAIN fs =>
                     path \in DOMAIN fs' /\ fs'[path] = fs[path]
              /\ path \in DOMAIN fs' =>
                     /\ fs'[path].full
                     /\ C13_Cached(fs', id) = C13_Fetched(id)
                     /\ classpath(C13_Cached(fs', id).libraries, id)
                            = classpath(C13_Fetched(id).libraries, id)
                     /\ game_args(C13_Cached(fs', id))
                            = game_args(C13_Fetched(id))]_vars

\* An acquisition of a version was aborted after its descriptor had been
\* fetched and cached, and the next one, which ended well, has read the
\* cached file: the descriptor was requested once.
C13_Witness ==
    /\ last.op = "create"
    /\ last.result = "created"
    /\ failures[last.selection[1]] = 1
    /\ fetches(net, version_url(last.selection[1])) = 1
    /\ version_json_path(last.selection[1]) \in DOMAIN fs

----------------------------------------------------------------------------
(* The runtime.                                                            *)

\* The major versions C14 names as supported.
C14_Registry == {8, 17}

\* C14: download_java for a major version outside the registry fails,
\* requests nothing from the network and leaves the file system, the
\* runtime root with it, as it is; for a version of the registry whose
\* installation directory exists it does nothing and does not fail.
C14_Runtime ==
    [][(call.fn = "download_java" /\ ~call.done /\ call'.done) =>
          /\ call.arg.version \notin C14_Registry =>
                 /\ call'.ret # "none"
                 /\ net' = net
                 /\ fs' = fs
          /\ (/\ call.arg.version \in C14_Registry
              /\ JRE_DIRECTORIES[call.arg.version] \in DOMAIN fs) =>
                 /\ call'.ret = "none"
                 /\ net' = net
                 /\ fs' = fs]_vars

\* download_java(21) has failed on an installation that has the runtime
\* of version 8.
C14_Witness ==
    /\ Returned("download_java")
    /\ call.arg.version = 21
    /\ call.arg.installed = {8}
    /\ call.ret = "KeyError"
    /\ Append(JRE_DIRECTORIES[8], JAVA_EXECUTABLE) \in DOMAIN fs

----------------------------------------------------------------------------
(* Callers at once.                                                        *)

\* C15: of callers that ask for the same asset hash at once, one fetches
\* it, so each object is requested at most once, and a caller that finds
\* the file of the hash in the store finds all of it.
C15_OneFetch ==
    call.fn = "download_assets" =>
       /\ \A c \in Callers : fetches(net, asset_url(call.arg[c])) <= 1
       /\ \A c \in Callers : call.ret[c].pc = "continue" => call.ret[c].full

----------------------------------------------------------------------------
(* The order of an acquisition.                                            *)

\* The step of download_version that requests `url`: 1 the client jar,
\* 2 the runtime, 3 the libraries, 4 the assets.
C16_StepOfUrl(url, version_json) ==
    IF url = version_json.downloads.client.url THEN 1
    ELSE IF url = JRE_DOWNLOAD_URLS[version_json.javaVersion.majorVersion]
    THEN 2
    ELSE IF url \in Range(get_library_urls(version_json.libraries)) THEN 3
    ELSE 4

\* The step of download_version that writes the path p.
C16_StepOfPath(p, version_json) ==
    IF p = version_jar_path(version_json.id) THEN 1
    ELSE IF IsPrefix(JAVA_DIRECTORY, p) \/ IsPrefix(TEMP_DIRECTORY, p) THEN 2
    ELSE IF IsPrefix(LIBRARIES_DIRECTORY, p) THEN 3
    ELSE IF IsPrefix(ASSETS_DIRECTORY, p) THEN 4
    ELSE 0

\* Whether what the step leaves is in the files.
C16_Completed(step, files, version_json) ==
    CASE step = 1 -> version_jar_path(version_json.id) \in DOMAIN files
      [] step = 2 ->
            JRE_DIRECTORIES[version_json.javaVersion.majorVersion]
                \in DOMAIN files
      [] step = 3 ->
            /\ \A url \in Range(get_library_urls(version_json.libraries)) :
                   library_path(url) \in DOMAIN files
            /\ PathDiv(EXTRACTED_LIBRARIES_DIRECTORY, version_json.id)
                   \in DOMAIN files
      [] step = 4 ->
            /\ asset_index_path(version_json.assetIndex.id) \in DOMAIN files
            /\ \A id \in IndexIds :
                   id = version_json.assetIndex.id =>
                      \A o \in Range(AssetIndexJson(id).objects) :
                         asset_path(o.hash) \in DOMAIN files

C16_Ordered(before, after, ret, fault, version_json) ==
    LET step(i) == C16_StepOfUrl(ret.trace[i], version_json)
        \* the step that failed: the one unpacking an archive, or the one
        \* of the request that failed
        failed == IF ret.err = "BadZipFile" THEN 3 ELSE step(Len(ret.trace))
        steps == {step(i) : i \in DOMAIN ret.trace}
        changed == {p \in DOMAIN after :
                       p \notin DOMAIN before \/ before[p] # after[p]}
        begun == steps \cup {C16_StepOfPath(p, version_json) : p \in changed}
    IN  /\ \A i, j \in DOMAIN ret.trace : i < j => step(i) <= step(j)
        /\ 1 \in steps <=>
               version_jar_path(version_json.id) \notin DOMAIN before
        /\ \A k \in begun, j \in 1..4 :
               j < k => C16_Completed(j, after, version_json)
        /\ ret.err = "none" =>
               \A j \in 1..4 : C16_Completed(j, after, version_json)
        /\ ret.err # "none" =>
               /\ ret.err # "BadZipFile" => Len(ret.trace) = fault.at
               /\ \A k \in begun : k <= failed

\* C16: download_version requests the client jar if and only if the jar
\* is absent, then acquires the runtime, then the libraries, then the
\* assets: the requests it makes are in this order, a step requests or
\* writes something only when every earlier step has left its result, and
\* after a failure no later step has requested or written anything.
C16_StepOrder ==
    [][(call.fn = "download_version" /\ ~call.done /\ call'.done) =>
          C16_Ordered(fs, fs', call'.ret, call.arg.fault,
                      json_load(fs[version_json_path(call.arg.id)].data))]_vars

\* download_version has failed in the libraries step on an installation
\* that had the client jar, and made no request of the assets step.
C16_Witness ==
    /\ Returned("download_version")
    /\ call.ret.err # "none"
    /\ call.ret.trace # <<>>
    /\ C16_StepOfUrl(Last(call.ret.trace), VersionJson(call.arg.id)) = 3
    /\ version_url(call.arg.id) \notin Range(call.ret.trace)
    /\ client_url(call.arg.id) \notin Range(call.ret.trace)

----------------------------------------------------------------------------
(* The resources of a profile.                                             *)

\* The index ids C17 names.
C17_Legacy == {Str("legacy"), Str("pre-1.6")}

C17_Linked(before, after, name, version_json) ==
    LET index == version_json.assetIndex.id
        objects == json_load(before[asset_index_path(index)].data).objects
        outside == {p \in DOMAIN after : ~IsPrefix(resources(name), p)}
    IN  IF index \in C17_Legacy
        THEN /\ \A o \in Range(objects) :
                    LET destination == resources(name) \o o.key
                    IN  /\ destination \in DOMAIN after
                        /\ after[destination] =
                               IF destination \in DOMAIN before
                               THEN before[destination]
                               ELSE after[asset_path(o.hash)]
             /\ outside = {p \in DOMAIN before : ~IsPrefix(resources(name), p)}
             /\ \A p \in outside : after[p] = before[p]
        ELSE after = before

\* C17: link_legacy_assets, called by create_profile when the version is
\* acquired, populates the resources directory of the profile if and only
\* if the id of the asset index is legacy or pre-1.6: every virtual path of
\* the index is then the stored object of its hash, or what was at the
\* path before; for another index id nothing is created.
C17_LegacyLinks ==
    [][(call.fn = "link_legacy_assets" /\ ~call.done /\ call'.done) =>
          /\ call'.ret = "none"
          /\ C17_Linked(fs, fs', call.arg.name,
                        json_load(fs[version_json_path(call.arg.id)].data))]_vars

\* The resources of a profile of the legacy version have been linked, one
\* of the two virtual paths having been there before.
C17_Witness ==
    /\ Returned("link_legacy_assets")
    /\ call.arg.id = V1
    /\ call.arg.name = <<"a">>
    /\ call.arg.existing = {<<Str("pack.png")>>}
    /\ fs[resources(<<"a">>) \o <<Str("pack.png")>>] = Foreign
    /\ fs[resources(<<"a">>) \o <<Str("icons"), Str("icon.png")>>]
           = fs[asset_path(H1)]

----------------------------------------------------------------------------
(* The frame of a deletion, and the registry against the disk.             *)

\* The registered profiles, other than the one of name n, that have a
\* directory of their own under the profiles directory.
C19_Others(registry, n) ==
    {q \in Range(registry) :
        q # n /\ profile_path(q) # PROFILES_DIRECTORY}

\* C19: delete_profile(name), called by Delete or by the clean-up of a
\* failed Create, leaves every other profile registered and leaves its
\* directory, with the marker file and all else in it, as it was.
C19_DeleteFrame ==
    last.del.called =>
       \A q \in C19_Others(last.del.profiles, last.del.name) :
          /\ q \in Range(profiles)
          /\ Subtree(fs, profile_path(q))
                 = Subtree(last.del.fs, profile_path(q))
          /\ \A p \in Subtree(last.del.fs, profile_path(q)) :
                 fs[p] = last.del.fs[p]

\* os.listdir(PROFILES_DIRECTORY) as a set.
C20_OnDisk == {Last(p) : p \in {q \in DOMAIN fs : q # <<>> /\ Parent(q) = PROFILES_DIRECTORY}}

\* C20: after every Create and Delete the registry holds no name twice
\* and holds the names in the profiles directory, no more and no less.
C20_RegistryIsListing ==
    /\ \A i, j \in DOMAIN profiles : profiles[i] = profiles[j] => i = j
    /\ Range(profiles) = C20_OnDisk

====
